---- MODULE Spec2Model ----
(***************************************************************************)
(* Model of @ty-ras/client-axios, code/client/src/client.ts:               *)
(* createCallHTTPEndpoint and the callback it returns.                     *)
(*                                                                         *)
(* Text is modelled as a sequence of lexemes.  A lexeme is a string that   *)
(* stands for itself: one character ("/", "?", "#", "%", a hex digit) or   *)
(* an indivisible run of host/path characters ("__dummy__", "a", ...).     *)
(* No lexeme is a concatenation of other lexemes, so two texts are equal   *)
(* as JavaScript strings exactly when their lexeme sequences are equal.    *)
(***************************************************************************)
EXTENDS Integers, Sequences, FiniteSets, TLC

VARIABLES
    created,    \* TRUE once createCallHTTPEndpoint has returned a callback
    args,       \* the HTTPEndpointCallerArgs the factory was called with
    instance,   \* the engine captured by the closure, once created
    reviver,    \* the reviver captured by the closure
    engines,    \* number of engines constructed by axios.create so far
    calls       \* per invocation slot: the state of one callback invocation

vars == <<created, args, instance, reviver, engines, calls>>

----------------------------------------------------------------------------
(* Bounds of the model                                                     *)

NCalls == 2        \* invocation slots that may be in flight at once
MaxUrlLen == 4     \* lexemes of a url after its optional scheme
MaxArr == 2        \* elements of an array-valued query/header value
MaxDepth == 2      \* nesting depth of a JSON response body

----------------------------------------------------------------------------
(* Small helpers on lexeme sequences                                       *)

RECURSIVE SeqsUpTo(_, _)
SeqsUpTo(S, n) ==
    IF n = 0 THEN {<<>>}
    ELSE LET shorter == SeqsUpTo(S, n - 1)
         IN  shorter \cup {Append(s, x) : s \in shorter, x \in S}

RECURSIVE FindFirst(_, _, _)
FindFirst(s, i, stops) ==
    IF i > Len(s) THEN Len(s) + 1
    ELSE IF s[i] \in stops THEN i
    ELSE FindFirst(s, i + 1, stops)

RECURSIVE SkipSlashes(_, _)
SkipSlashes(s, i) ==
    IF i <= Len(s) /\ s[i] = "/" THEN SkipSlashes(s, i + 1) ELSE i

RECURSIVE FlatMap(_, _)
FlatMap(F(_), s) ==
    IF s = <<>> THEN <<>> ELSE F(Head(s)) \o FlatMap(F, Tail(s))

RECURSIVE Filter(_, _)
Filter(P(_), s) ==
    IF s = <<>> THEN <<>>
    ELSE IF P(Head(s)) THEN <<Head(s)>> \o Filter(P, Tail(s))
    ELSE Filter(P, Tail(s))

Map(F(_), s) == [i \in 1..Len(s) |-> F(s[i])]

Occurs(x, s) == \E i \in 1..Len(s) : s[i] = x

----------------------------------------------------------------------------
(* new URL(url, DUMMY_ORIGIN): the WHATWG URL parser on the lexemes a url  *)
(* of this model can hold, with base ftp://__dummy__ (path "/").           *)

DUMMY_ORIGIN == <<"ftp:", "/", "/", "__dummy__">>

FailedURL ==
    [ok |-> FALSE, scheme |-> "", host |-> <<>>, path |-> <<>>,
     hasQuery |-> FALSE, query |-> <<>>, hasFragment |-> FALSE, fragment |-> <<>>]

\* path state, query state and fragment state, entered at position i (the
\* first lexeme after the slash that starts the path, if there is one)
PathQueryFragment(scheme, host, s, i) ==
    LET q == FindFirst(s, i, {"?", "#"})
        isQ == q <= Len(s) /\ s[q] = "?"
        f == IF isQ THEN FindFirst(s, q + 1, {"#"}) ELSE q
    IN  [ok |-> TRUE, scheme |-> scheme, host |-> host,
         path |-> SubSeq(s, i, q - 1),
         hasQuery |-> isQ,
         query |-> IF isQ THEN SubSeq(s, q + 1, f - 1) ELSE <<>>,
         hasFragment |-> f <= Len(s),
         fragment |-> IF f <= Len(s) THEN SubSeq(s, f + 1, Len(s)) ELSE <<>>]

\* authority state, host state and path start state, entered at position i
\* (after "special authority ignore slashes" skipped every slash)
AuthorityState(scheme, s, i) ==
    LET e == FindFirst(s, i, {"/", "?", "#"})
        host == SubSeq(s, i, e - 1)
    IN  IF host = <<>> THEN FailedURL      \* special scheme, empty host
        ELSE IF e <= Len(s) /\ s[e] = "/"
             THEN PathQueryFragment(scheme, host, s, e + 1)
             ELSE PathQueryFragment(scheme, host, s, e)

\* relative state and relative slash state against the base ftp://__dummy__/
RelativeState(s, i) ==
    IF i <= Len(s) /\ s[i] = "/"
    THEN IF i + 1 <= Len(s) /\ s[i + 1] = "/"
         THEN AuthorityState("ftp:", s, SkipSlashes(s, i + 2))
         ELSE PathQueryFragment("ftp:", <<"__dummy__">>, s, i + 1)
    ELSE PathQueryFragment("ftp:", <<"__dummy__">>, s, i)

ParseURL(url) ==
    IF url # <<>> /\ url[1] = "ftp:"
    THEN \* special relative or authority state: same scheme as the base
         IF Len(url) >= 3 /\ url[2] = "/" /\ url[3] = "/"
         THEN AuthorityState("ftp:", url, SkipSlashes(url, 4))
         ELSE RelativeState(url, 2)
    ELSE IF url # <<>> /\ url[1] = "http:"
    THEN \* special authority slashes state: another special scheme
         AuthorityState("http:", url, SkipSlashes(url, 2))
    ELSE RelativeState(url, 1)

Origin(u) == <<u.scheme, "/", "/">> \o u.host

Href(u) ==
    <<u.scheme, "/", "/">> \o u.host \o <<"/">> \o u.path
        \o (IF u.hasQuery THEN <<"?">> \o u.query ELSE <<>>)
        \o (IF u.hasFragment THEN <<"#">> \o u.fragment ELSE <<>>)

----------------------------------------------------------------------------
(* client.ts lines 41-45 and 152-156: the url handed to the engine         *)

\* the condition of line 42
IsAbsoluteInput(url) ==
    LET urlObject == ParseURL(url)
    IN  Origin(urlObject) # DUMMY_ORIGIN \/ Href(urlObject) = url

\* lines 42-45: url = `/${url}` when the condition holds
PrependSlash(url) == IF IsAbsoluteInput(url) THEN <<"/">> \o url ELSE url

CharCodeAt(char) == IF char = "?" THEN 63 ELSE 35

HexDigits == <<"0", "1", "2", "3", "4", "5", "6", "7", "8", "9",
               "a", "b", "c", "d", "e", "f">>

RECURSIVE ToString16(_)
ToString16(n) ==
    IF n < 16 THEN <<HexDigits[n + 1]>>
    ELSE ToString16(n \div 16) \o <<HexDigits[(n % 16) + 1]>>

UpperOf(c) ==
    CASE c = "a" -> "A" [] c = "b" -> "B" [] c = "c" -> "C"
      [] c = "d" -> "D" [] c = "e" -> "E" [] c = "f" -> "F"
      [] OTHER -> c

ToUpperCase(s) == Map(UpperOf, s)

\* the replacer of line 155
EscapeChar(char) == <<"%">> \o ToUpperCase(ToString16(CharCodeAt(char)))

\* a variant that escapes the query mark only
MatchesQueryOnly(char) == char = "?"

\* the regular expression of line 154
MatchesQueryOrFragment(char) == char \in {"?", "#"}

EscapeOrKeep(char) ==
    IF MatchesQueryOrFragment(char) THEN EscapeChar(char) ELSE <<char>>

ensureNoQueryOrFragment(path) == FlatMap(EscapeOrKeep, path)

----------------------------------------------------------------------------
(* JavaScript values that a query or headers mapping can hold.  A mapping  *)
(* is the sequence of its entries <<key, value>> in Object.entries order   *)
(* (keys distinct).                                                        *)

Undefined == [t |-> "undefined"]
Null == [t |-> "null"]
Str(s) == [t |-> "string", s |-> s]
Num(n) == [t |-> "number", n |-> n]
Arr(a) == [t |-> "array", a |-> a]

DecDigits == <<"0", "1", "2", "3", "4", "5", "6", "7", "8", "9">>

RECURSIVE NumberToString(_)
NumberToString(n) ==
    IF n < 10 THEN DecDigits[n + 1]
    ELSE NumberToString(n \div 10) \o DecDigits[(n % 10) + 1]

\* Array.prototype.join(","): undefined and null elements give ""
RECURSIVE JoinElements(_)
JoinElements(a) ==
    LET one(v) == CASE v.t = "string" -> v.s
                    [] v.t = "number" -> NumberToString(v.n)
                    [] OTHER -> ""
    IN  IF a = <<>> THEN ""
        ELSE IF Len(a) = 1 THEN one(a[1])
        ELSE one(a[1]) \o "," \o JoinElements(Tail(a))

\* the template literal `${value}`
TemplateString(value) ==
    CASE value.t = "string" -> value.s
      [] value.t = "number" -> NumberToString(value.n)
      [] value.t = "undefined" -> "undefined"
      [] value.t = "null" -> "null"
      [] value.t = "array" -> JoinElements(value.a)

IsDefined(value) == value.t # "undefined"

EntryIsDefined(entry) == IsDefined(entry[2])

----------------------------------------------------------------------------
(* client.ts lines 141-150: getURLSearchParams.  The URLSearchParams built *)
(* from a sequence of pairs is that list of pairs, in order.               *)

\* a variant without the Array.isArray branch
QueryOccurrencesJoined(entry) == << <<entry[1], TemplateString(entry[2])>> >>

QueryOccurrences(entry) ==
    LET qKey == entry[1]
        qValue == entry[2]
        pair(value) == <<qKey, TemplateString(value)>>
    IN  IF qValue.t = "array" THEN Map(pair, qValue.a)
        ELSE <<pair(qValue)>>

getURLSearchParams(query) ==
    FlatMap(QueryOccurrences, Filter(EntryIsDefined, query))

----------------------------------------------------------------------------
(* client.ts lines 158-175: getOutgoingHeaders and getOutgoingHeader       *)

StringOf(v) == Str(TemplateString(v))

\* a variant that keeps the undefined elements of an array
getOutgoingHeaderUnfiltered(header) ==
    IF header.t = "string" \/ header.t = "number" THEN header
    ELSE IF header.t = "array" THEN Arr(Map(StringOf, header.a))
    ELSE Str(TemplateString(header))

getOutgoingHeader(header) ==
    IF header.t = "string" \/ header.t = "number" THEN header
    ELSE IF header.t = "array"
         THEN Arr(Map(StringOf, Filter(IsDefined, header.a)))
         ELSE Str(TemplateString(header))

OutgoingEntry(entry) == <<entry[1], getOutgoingHeader(entry[2])>>

getOutgoingHeaders(headers) == Map(OutgoingEntry, Filter(EntryIsDefined, headers))

----------------------------------------------------------------------------
(* JSON.  A JSON value of the model is an object: a function from its own  *)
(* keys to JSON values ({} is the empty function).  JSON text is the       *)
(* lexeme sequence JSON.stringify writes for it; JSON.parse reads lexemes. *)

JSONKeys == {"__proto__", "k"}

KeyOrder == <<"__proto__", "k">>

RECURSIVE JSONValues(_)
JSONValues(depth) ==
    IF depth = 0 THEN {<<>>}
    ELSE UNION {[D -> JSONValues(depth - 1)] : D \in SUBSET JSONKeys}

RECURSIVE JSONStringify(_)
JSONStringify(value) ==
    LET present(key) == key \in DOMAIN value
        member(key) == <<",", key, ":">> \o JSONStringify(value[key])
        members == FlatMap(member, Filter(present, KeyOrder))
    IN  <<"{">> \o (IF members = <<>> THEN <<>> ELSE Tail(members)) \o <<"}">>

ParseFailure == [ok |-> FALSE, val |-> <<>>, rest |-> <<>>]

\* the JSON grammar for objects; a repeated key keeps its last value
RECURSIVE ParseMembers(_, _, _)
ParseMembers(toks, acc, first) ==
    IF toks = <<>> THEN ParseFailure
    ELSE IF first /\ Head(toks) = "}"
    THEN [ok |-> TRUE, val |-> acc, rest |-> Tail(toks)]
    ELSE IF Len(toks) >= 3 /\ toks[1] \in JSONKeys /\ toks[2] = ":" /\ toks[3] = "{"
    THEN LET r == ParseMembers(SubSeq(toks, 4, Len(toks)), <<>>, TRUE)
             acc2 == [k \in DOMAIN acc \cup {toks[1]} |->
                         IF k = toks[1] THEN r.val ELSE acc[k]]
         IN  IF ~r.ok \/ r.rest = <<>> THEN ParseFailure
             ELSE IF Head(r.rest) = ","
             THEN ParseMembers(Tail(r.rest), acc2, FALSE)
             ELSE IF Head(r.rest) = "}"
             THEN [ok |-> TRUE, val |-> acc2, rest |-> Tail(r.rest)]
             ELSE ParseFailure
    ELSE ParseFailure

ParseText(text) ==
    IF text # <<>> /\ Head(text) = "{"
    THEN LET r == ParseMembers(Tail(text), <<>>, TRUE)
         IN  IF r.ok /\ r.rest = <<>> THEN r ELSE ParseFailure
    ELSE ParseFailure

\* data.getJSONParseReviver(allowProtoProperty): no reviver when the
\* property is allowed, else (key, value) => key === "__proto__" ? undefined : value
getJSONParseReviver(allowProtoProperty) ==
    IF allowProtoProperty THEN "noReviver" ELSE "dropProto"

ReviverKeeps(rev, key) == rev = "noReviver" \/ key # "__proto__"

\* InternalizeJSONProperty: a property whose revived value is undefined is deleted
RECURSIVE Internalize(_, _)
Internalize(value, rev) ==
    [key \in {k \in DOMAIN value : ReviverKeeps(rev, k)} |->
        Internalize(value[key], rev)]

\* JSON.parse(text, reviver): ok = FALSE is a thrown SyntaxError
JSONParse(text, rev) ==
    LET r == ParseText(text)
    IN  IF r.ok THEN [ok |-> TRUE, val |-> Internalize(r.val, rev)]
        ELSE [ok |-> FALSE, val |-> <<>>]

----------------------------------------------------------------------------
(* Records of the state machine                                            *)

CallIds == 1..NCalls

NoArgs ==
    [kind |-> "none", baseURL |-> "none", allowProtoProperty |-> "absent",
     validateStatus |-> "default"]

NoDescriptor ==
    [method |-> "", url |-> <<>>,
     query |-> [defined |-> FALSE, entries |-> <<>>],
     body |-> [defined |-> FALSE, val |-> <<>>],
     headers |-> [defined |-> FALSE, entries |-> <<>>]]

NoRequest ==
    [method |-> "", url |-> <<>>, hasHeaders |-> FALSE, headers |-> <<>>,
     hasParams |-> FALSE, params |-> <<>>, hasData |-> FALSE, data |-> <<>>,
     responseType |-> ""]

NoResponse == [status |-> 0, headers |-> <<>>, data |-> <<>>]

NoError == [name |-> "", statusCode |-> 0, message |-> ""]

NoOutcome ==
    [kind |-> "none", error |-> NoError, headers |-> <<>>,
     bodyIsUndefined |-> FALSE, body |-> <<>>]

IdleCall ==
    [pc |-> "idle", desc |-> NoDescriptor, url |-> <<>>, sends |-> 0,
     engine |-> 0, req |-> NoRequest, hasResp |-> FALSE, resp |-> NoResponse,
     outcome |-> NoOutcome]

Rejected(error) == [NoOutcome EXCEPT !.kind = "rejected", !.error = error]

Resolved(headers, body) ==
    [NoOutcome EXCEPT !.kind = "resolved", !.headers = headers, !.body = body]

\* the errors a callback can reject with
TypeError == [name |-> "TypeError", statusCode |-> 0, message |-> "Invalid URL"]

SyntaxError ==
    [name |-> "SyntaxError", statusCode |-> 0, message |-> "Unexpected JSON input"]

AxiosError == [name |-> "AxiosError", statusCode |-> 0, message |-> "Request failed"]

\* errors.Non2xxStatusCodeError
Non2xxStatusCodeError(status) ==
    [name |-> "Non2xxStatusCodeError", statusCode |-> status,
     message |-> "Status code " \o NumberToString(status) \o " was returned."]

----------------------------------------------------------------------------
(* createCallHTTPEndpoint, lines 23-33                                     *)

\* a variant that tests truthiness instead of === true
AllowProtoIsTruthy(a) == a.allowProtoProperty \in {"true", "truthy"}

\* line 32: args.allowProtoProperty === true
AllowProtoIsTrue(a) == a.allowProtoProperty = "true"

\* a variant that constructs an engine whatever the arguments
ResolveInstanceAlwaysCreates(a, constructed) ==
    [instance |-> constructed + 1, engines |-> constructed + 1]

\* line 31: "config" in args ? axios.create(args.config) : args.instance.
\* Engines that axios.create constructs are numbered 1, 2, ...; the engine a
\* caller supplies as `instance` is engine 0.
ResolveInstance(a, constructed) ==
    IF a.kind \in {"string", "config"}
    THEN [instance |-> constructed + 1, engines |-> constructed + 1]
    ELSE [instance |-> 0, engines |-> constructed]

Create(a) ==
    /\ ~created
    /\ LET r == ResolveInstance(a, engines)
       IN  /\ instance' = r.instance
           /\ engines' = r.engines
    /\ reviver' = getJSONParseReviver(AllowProtoIsTrue(a))
    /\ args' = a
    /\ created' = TRUE
    /\ UNCHANGED calls

----------------------------------------------------------------------------
(* The returned callback, lines 34-79                                      *)

\* lines 51-64: the request configuration handed to the engine
BuildRequest(d, url) ==
    [method |-> d.method,
     url |-> ensureNoQueryOrFragment(url),
     hasHeaders |-> d.headers.defined,
     headers |-> IF d.headers.defined THEN getOutgoingHeaders(d.headers.entries)
                 ELSE <<>>,
     hasParams |-> d.query.defined,
     params |-> IF d.query.defined THEN getURLSearchParams(d.query.entries)
                ELSE <<>>,
     hasData |-> d.body.defined,
     data |-> IF d.body.defined THEN JSONStringify(d.body.val) ELSE <<>>,
     responseType |-> "text"]

\* lines 34-64, up to the await: new URL may throw; else one request is sent
Invoke(c, d) ==
    /\ created
    /\ calls[c].pc = "idle"
    /\ IF ~ParseURL(d.url).ok
       THEN calls' = [calls EXCEPT ![c] =
                [IdleCall EXCEPT !.pc = "rejected", !.desc = d, !.url = d.url,
                                 !.outcome = Rejected(TypeError)]]
       ELSE LET url == PrependSlash(d.url)
            IN  calls' = [calls EXCEPT ![c] =
                    [IdleCall EXCEPT !.pc = "awaiting", !.desc = d, !.url = url,
                                     !.sends = 1, !.engine = instance,
                                     !.req = BuildRequest(d, url)]]
    /\ UNCHANGED <<created, args, instance, reviver, engines>>

\* the engine's validateStatus: the axios default accepts 2xx only
AxiosValidateStatus(a, status) ==
    a.validateStatus = "acceptAll" \/ (status >= 200 /\ status < 300)

\* the promise of instance(...) is fulfilled with a response
EngineResponds(c, r) ==
    /\ calls[c].pc = "awaiting"
    /\ AxiosValidateStatus(args, r.status)
    /\ calls' = [calls EXCEPT ![c].pc = "delivered", ![c].hasResp = TRUE,
                              ![c].resp = r]
    /\ UNCHANGED <<created, args, instance, reviver, engines>>

\* the promise of instance(...) is rejected; the callback rethrows (no catch)
EngineFails(c) ==
    /\ calls[c].pc = "awaiting"
    /\ calls' = [calls EXCEPT ![c].pc = "rejected",
                              ![c].outcome = Rejected(AxiosError)]
    /\ UNCHANGED <<created, args, instance, reviver, engines>>

\* a variant whose upper limit is off by one
IsNon2xxAbove300(status) == status < 200 \/ status > 300

\* line 66
IsNon2xx(status) == status < 200 \/ status >= 300

\* lines 71-75
HeaderIsPresent(entry) == entry[2].t \notin {"undefined", "null"}

\* lines 66-78
Settle(resp, rev) ==
    IF IsNon2xx(resp.status) THEN Rejected(Non2xxStatusCodeError(resp.status))
    ELSE LET body == JSONParse(resp.data, rev)
         IN  IF body.ok
             THEN Resolved(Filter(HeaderIsPresent, resp.headers), body.val)
             ELSE Rejected(SyntaxError)

\* a variant that reads a response kept in one place for all invocations
AwaitedResponseShared(cs, c) ==
    cs[CHOOSE x \in DOMAIN cs : cs[x].pc = "delivered"].resp

\* the response the continuation of invocation c reads (line 46-51)
AwaitedResponse(cs, c) == cs[c].resp

\* lines 66-79: the continuation after the await
Resume(c) ==
    /\ calls[c].pc = "delivered"
    /\ LET outcome == Settle(AwaitedResponse(calls, c), reviver)
       IN  calls' = [calls EXCEPT ![c].pc = outcome.kind, ![c].outcome = outcome]
    /\ UNCHANGED <<created, args, instance, reviver, engines>>

\* the caller has consumed the settled promise; the slot serves a later call
Forget(c) ==
    /\ calls[c].pc \in {"resolved", "rejected"}
    /\ calls' = [calls EXCEPT ![c] = IdleCall]
    /\ UNCHANGED <<created, args, instance, reviver, engines>>

Init ==
    /\ created = FALSE
    /\ args = NoArgs
    /\ instance = 0
    /\ reviver = "unset"
    /\ engines = 0
    /\ calls = [c \in CallIds |-> IdleCall]

----------------------------------------------------------------------------
(* Inputs                                                                  *)

AllowProtoValues == {"absent", "false", "true", "truthy"}

StringArgs ==
    {[kind |-> "string", baseURL |-> b, allowProtoProperty |-> "absent",
      validateStatus |-> "default"] : b \in {"valid", "malformed"}}

ConfigArgs ==
    {[kind |-> "config", baseURL |-> b, allowProtoProperty |-> p,
      validateStatus |-> v] :
        b \in {"valid", "malformed"}, p \in AllowProtoValues,
        v \in {"default", "acceptAll"}}

InstanceArgs ==
    {[kind |-> "instance", baseURL |-> "none", allowProtoProperty |-> p,
      validateStatus |-> v] :
        p \in AllowProtoValues, v \in {"default", "acceptAll"}}

AllArgs == StringArgs \cup ConfigArgs \cup InstanceArgs

PlainArgs ==
    {[kind |-> "config", baseURL |-> "valid", allowProtoProperty |-> "absent",
      validateStatus |-> "acceptAll"]}

ReviverArgs ==
    {[kind |-> "config", baseURL |-> "valid", allowProtoProperty |-> p,
      validateStatus |-> "acceptAll"] : p \in AllowProtoValues}

Hello == [NoDescriptor EXCEPT !.method = "GET", !.url = <<"/", "hello">>]

Elements == {Undefined, Str("2"), Str("3"), Num(3)}

Values ==
    {Undefined, Null, Str("1"), Num(12)}
        \cup {Arr(a) : a \in SeqsUpTo(Elements, MaxArr)}

MappingKeys == {"a", "b"}

\* the entry sequences of the objects with keys among MappingKeys
Mappings ==
    {<<>>}
        \cup {<< <<k, v>> >> : k \in MappingKeys, v \in Values}
        \cup {<< <<ks[1], v1>>, <<ks[2], v2>> >> :
                  ks \in {p \in MappingKeys \X MappingKeys : p[1] # p[2]},
                  v1 \in Values, v2 \in Values}

UrlHeads == {<<>>, <<"ftp:">>, <<"http:">>}

UrlLexemes == {"/", "__dummy__", "example.com", "a", "?", "#"}

Urls == {h \o r : h \in UrlHeads, r \in SeqsUpTo(UrlLexemes, MaxUrlLen)}

UrlDescs == {[Hello EXCEPT !.url = u] : u \in Urls}

QueryDescs ==
    {Hello} \cup {[Hello EXCEPT !.query = [defined |-> TRUE, entries |-> m]] :
                     m \in Mappings}

HeaderDescs ==
    {Hello} \cup {[Hello EXCEPT !.headers = [defined |-> TRUE, entries |-> m]] :
                     m \in Mappings}

Complex ==
    [method |-> "POST",
     url |-> <<"http:", "/", "/", "example.com">>,
     query |-> [defined |-> TRUE,
                entries |-> << <<"a", Str("1")>>, <<"b", Arr(<<Str("2"), Str("3")>>)>> >>],
     body |-> [defined |-> TRUE, val |-> [k \in {"k"} |-> <<>>]],
     headers |-> [defined |-> TRUE,
                  entries |-> << <<"h", Arr(<<Str("one"), Str("two")>>)>> >>]]

Unparsable == [Hello EXCEPT !.url = <<"http:">>]

MainDescs == {Hello, Complex, Unparsable}

IncomingHeaders ==
    << <<"connection", Str("close")>>, <<"x-null", Null>>, <<"x-undefined", Undefined>> >>

MalformedTexts == {<<"{">>, <<"{", "k", ":", "{", "}", ",", "}">>}

Texts ==
    {<<>>} \cup MalformedTexts \cup {JSONStringify(v) : v \in JSONValues(MaxDepth)}

Statuses == {199, 200, 204, 299, 300, 404, 500}

Responses ==
    {[status |-> st, headers |-> IncomingHeaders, data |-> t] :
        st \in Statuses, t \in Texts}

NoContent == [status |-> 204, headers |-> IncomingHeaders, data |-> <<>>]

MainResponses ==
    {NoContent,
     [status |-> 404, headers |-> IncomingHeaders, data |-> <<>>],
     [status |-> 200, headers |-> IncomingHeaders,
      data |-> <<"{", "k", ":", "{", "}", "}">>]}

----------------------------------------------------------------------------
(* Specifications                                                          *)

NextOver(argsSet, slots, descs, resps) ==
    \/ \E a \in argsSet : Create(a)
    \/ \E c \in slots : calls[c].pc = "idle" /\ \E d \in descs : Invoke(c, d)
    \/ \E c \in slots : calls[c].pc = "awaiting" /\ \E r \in resps : EngineResponds(c, r)
    \/ \E c \in slots : EngineFails(c)
    \/ \E c \in slots : Resume(c)
    \/ \E c \in slots : Forget(c)

\* any factory arguments, invocations in flight at once
Next == NextOver(AllArgs, CallIds, MainDescs, MainResponses)

Spec == Init /\ [][Next]_vars

\* every url of the model, one invocation at a time
NextURL == NextOver(PlainArgs, {1}, UrlDescs, {NoContent})

SpecURL == Init /\ [][NextURL]_vars

\* every query mapping of the model
NextQuery == NextOver(PlainArgs, {1}, QueryDescs, {NoContent})

SpecQuery == Init /\ [][NextQuery]_vars

\* every headers mapping of the model
NextHeaders == NextOver(PlainArgs, {1}, HeaderDescs, {NoContent})

SpecHeaders == Init /\ [][NextHeaders]_vars

\* every response of the model, under every allowProtoProperty
NextResponse == NextOver(ReviverArgs, {1}, {Hello}, Responses)

SpecResponse == Init /\ [][NextResponse]_vars

----------------------------------------------------------------------------
(* Helpers of the properties                                               *)

Settled(k) == k.pc \in {"resolved", "rejected"}

Is2xx(status) == status \in 200..299

\* the decimal numerals of the statuses, written out
Numeral ==
    [st \in Statuses |->
        CASE st = 199 -> "199" [] st = 200 -> "200" [] st = 204 -> "204"
          [] st = 299 -> "299" [] st = 300 -> "300" [] st = 404 -> "404"
          [] st = 500 -> "500"]

\* String(value) of the scalar values of the model, written out
StringOfScalar(v) ==
    CASE v = Undefined -> "undefined"
      [] v = Null -> "null"
      [] v = Str("1") -> "1"
      [] v = Str("2") -> "2"
      [] v = Str("3") -> "3"
      [] v = Num(3) -> "3"
      [] v = Num(12) -> "12"

\* the text in which %3F and %23 are read back as ? and #
RECURSIVE Unescape(_)
Unescape(s) ==
    IF s = <<>> THEN <<>>
    ELSE IF Len(s) >= 3 /\ SubSeq(s, 1, 3) = <<"%", "3", "F">>
    THEN <<"?">> \o Unescape(SubSeq(s, 4, Len(s)))
    ELSE IF Len(s) >= 3 /\ SubSeq(s, 1, 3) = <<"%", "2", "3">>
    THEN <<"#">> \o Unescape(SubSeq(s, 4, Len(s)))
    ELSE <<Head(s)>> \o Unescape(Tail(s))

\* scheme, "//" and a host: a fully-qualified absolute URL
IsFullyQualified(url) ==
    /\ Len(url) >= 4
    /\ url[1] \in {"ftp:", "http:"}
    /\ url[2] = "/" /\ url[3] = "/"
    /\ url[4] \notin {"/", "?", "#"}

\* the key paths of a JSON value
RECURSIVE Paths(_)
Paths(v) == {<<>>} \cup UNION {{<<k>> \o p : p \in Paths(v[k])} : k \in DOMAIN v}

ValuesOfKey(params, key) ==
    LET hasKey(p) == p[1] = key
        value(p) == p[2]
    IN  Map(value, SelectSeq(params, hasKey))

KeyIndex(entries, key) == CHOOSE i \in 1..Len(entries) : entries[i][1] = key

ExpectedOccurrences(v) ==
    IF v = Undefined THEN <<>>
    ELSE IF v.t = "array" THEN [j \in 1..Len(v.a) |-> StringOfScalar(v.a[j])]
    ELSE <<StringOfScalar(v)>>

ExpectedHeader(v) ==
    LET defined(e) == e # Undefined
        str(e) == Str(StringOfScalar(e))
    IN  IF v.t \in {"string", "number"} THEN v
        ELSE IF v.t = "array" THEN Arr(Map(str, SelectSeq(v.a, defined)))
        ELSE Str(StringOfScalar(v))

----------------------------------------------------------------------------
(* Properties                                                              *)

C2_NoQueryOrFragment ==
    \A c \in CallIds :
        LET k == calls[c]
        IN  /\ k.pc \in {"awaiting", "delivered", "resolved"} => k.sends = 1
            /\ k.sends > 0 =>
                  /\ ~Occurs("?", k.req.url)
                  /\ ~Occurs("#", k.req.url)
                  /\ Unescape(k.req.url) \in {k.desc.url, <<"/">> \o k.desc.url}

C2_Witness ==
    \E c \in CallIds :
        /\ calls[c].sends = 1
        /\ calls[c].desc.url = <<"/", "a", "?", "#">>
        /\ calls[c].req.url = <<"/", "a", "%", "3", "F", "%", "2", "3">>

\* C3: a url that is by itself a fully-qualified absolute URL, whatever its
\* scheme or origin, reaches the engine prefixed with exactly one "/" (and
\* escaped); the plain path /hello reaches it without a prefix.
C3_AbsoluteUrlIsPrefixed ==
    \A c \in CallIds :
        LET k == calls[c]
        IN  k.sends > 0 =>
              /\ IsFullyQualified(k.desc.url) =>
                    Unescape(k.req.url) = <<"/">> \o k.desc.url
              /\ k.desc.url = <<"/", "hello">> => k.req.url = <<"/", "hello">>

\* C4: a 2xx response with an empty body text resolves with body undefined
\* and never rejects.
C4_EmptyBodyIsUndefined ==
    \A c \in CallIds :
        LET k == calls[c]
        IN  (Settled(k) /\ k.hasResp /\ Is2xx(k.resp.status) /\ k.resp.data = <<>>) =>
                /\ k.outcome.kind = "resolved"
                /\ k.outcome.bodyIsUndefined

\* C5: unless allowProtoProperty is the boolean true, the decoded body of a
\* 2xx response is the sent JSON value without the keys named __proto__ at
\* any depth (and with everything else); with true it is the sent value
\* unmodified.  The reviver is the one chosen at construction in every
\* later state.
C5_ProtoStripping ==
    /\ created =>
          reviver = IF args.allowProtoProperty = "true" THEN "noReviver"
                    ELSE "dropProto"
    /\ \A c \in CallIds :
          LET k == calls[c]
              sent == ParseText(k.resp.data).val
          IN  k.pc = "resolved" =>
                IF args.allowProtoProperty = "true"
                THEN k.outcome.body = sent
                ELSE Paths(k.outcome.body) =
                        {p \in Paths(sent) : ~Occurs("__proto__", p)}

C5_Witness ==
    \E c \in CallIds :
        /\ args.allowProtoProperty = "truthy"
        /\ calls[c].pc = "resolved"
        /\ calls[c].resp.data =
              <<"{", "__proto__", ":", "{", "k", ":", "{", "}", "}", ",",
                "k", ":", "{", "__proto__", ":", "{", "}", "}", "}">>
        /\ calls[c].outcome.body = [x \in {"k"} |-> <<>>]

\* C6: the params handed to the engine visit the keys of query in their own
\* order; an undefined value gives nothing, an array one (key,
\* string(element)) per element in array order, any other value exactly one
\* (key, string(value)); no params field is sent when query is undefined.
C6_QueryParams ==
    \A c \in CallIds :
        LET k == calls[c]
            es == k.desc.query.entries
            ps == k.req.params
        IN  k.sends > 0 =>
              /\ k.req.hasParams = k.desc.query.defined
              /\ ~k.desc.query.defined => ps = <<>>
              /\ \A i \in 1..Len(es) :
                    ValuesOfKey(ps, es[i][1]) = ExpectedOccurrences(es[i][2])
              /\ \A p \in 1..Len(ps) : \E i \in 1..Len(es) : es[i][1] = ps[p][1]
              /\ \A p, q \in 1..Len(ps) :
                    p < q => KeyIndex(es, ps[p][1]) <= KeyIndex(es, ps[q][1])

C6_Witness ==
    \E c \in CallIds :
        /\ calls[c].sends = 1
        /\ calls[c].desc.query.entries =
              << <<"a", Str("1")>>, <<"b", Arr(<<Str("2"), Str("3")>>)>> >>
        /\ calls[c].req.params = << <<"a", "1">>, <<"b", "2">>, <<"b", "3">> >>

\* C7: with a malformed base URL the factory throws: it returns no callback,
\* and no request is ever issued.
C7_MalformedBaseURLThrows ==
    (args.kind \in {"string", "config"} /\ args.baseURL = "malformed") =>
        /\ ~created
        /\ \A c \in CallIds : calls[c].sends = 0

\* C8: the headers handed to the engine hold exactly the keys of headers
\* whose value is not undefined, in order; a string or number is passed
\* unchanged, an array becomes the strings of its non-undefined elements in
\* order, any other value its string; no headers field is sent when headers
\* is undefined.
C8_OutgoingHeaders ==
    \A c \in CallIds :
        LET k == calls[c]
            defined(e) == e[2] # Undefined
            es == SelectSeq(k.desc.headers.entries, defined)
            hs == k.req.headers
        IN  k.sends > 0 =>
              /\ k.req.hasHeaders = k.desc.headers.defined
              /\ ~k.desc.headers.defined => hs = <<>>
              /\ Len(hs) = Len(es)
              /\ \A i \in 1..Len(es) :
                    /\ hs[i][1] = es[i][1]
                    /\ hs[i][2] = ExpectedHeader(es[i][2])

C8_Witness ==
    \E c \in CallIds :
        /\ calls[c].sends = 1
        /\ calls[c].desc.headers.entries =
              << <<"b", Undefined>>, <<"a", Arr(<<Str("2"), Undefined>>)>> >>
        /\ calls[c].req.headers = << <<"a", Arr(<<Str("2")>>)>> >>

\* C9: every request of the callback goes to the one engine of its closure:
\* with config or a bare string exactly one engine is constructed, at the
\* factory call, and none afterwards; with instance the supplied engine is
\* used and none is constructed; an invocation issues at most one request.
C9_OneEngine ==
    /\ ~created => engines = 0
    /\ created =>
          /\ engines = IF args.kind = "instance" THEN 0 ELSE 1
          /\ instance = IF args.kind = "instance" THEN 0 ELSE 1
    /\ \A c \in CallIds :
          /\ calls[c].sends <= 1
          /\ calls[c].sends = 1 => calls[c].engine = instance
          /\ calls[c].pc \in {"awaiting", "delivered", "resolved"} =>
                calls[c].sends = 1

C9_Witness ==
    /\ args.kind = "instance"
    /\ engines = 0
    /\ calls[1].pc = "resolved" /\ calls[1].engine = 0
    /\ calls[2].pc = "awaiting" /\ calls[2].engine = 0

\* the request and the outcome of each invocation follow from its own
\* descriptor and its own response
OwnInputsDecide ==
    \A c \in CallIds :
        LET k == calls[c]
        IN  /\ k.sends = 1 =>
                  /\ Unescape(k.url) \in {k.desc.url, <<"/">> \o k.desc.url}
                  /\ k.req = BuildRequest(k.desc, k.url)
            /\ (Settled(k) /\ k.hasResp) => k.outcome = Settle(k.resp, reviver)
            /\ (Settled(k) /\ ~k.hasResp) =>
                  k.outcome \in {Rejected(TypeError), Rejected(AxiosError)}

\* a step of one invocation leaves every other invocation as it was
OthersUntouched ==
    \A c \in CallIds :
        calls'[c] # calls[c] => \A o \in CallIds \ {c} : calls'[o] = calls[o]

\* C10: with several invocations in flight, under every interleaving each
\* one's request and outcome are decided by its own descriptor and its own
\* response alone, and no step of one changes the state of another (the
\* slash prefix of one url never reaches the url of another).
C10_Independent == []OwnInputsDecide /\ [][OthersUntouched]_vars

C10_Witness ==
    /\ calls[1].pc = "awaiting" /\ calls[1].desc = Complex
    /\ calls[1].req.url = <<"/", "http:", "/", "/", "example.com">>
    /\ calls[2].pc = "rejected" /\ calls[2].desc = Hello
    /\ calls[2].req.url = <<"/", "hello">>
    /\ calls[2].resp.status = 404

====
